---- MODULE Spec2Model ----
(***************************************************************************)
(* Verification model of the Four_fish_school repository:                  *)
(*   - FlappingFoilKinematics (src/FlappingFoilKinematics.cpp): prescribed *)
(*     heave/pitch kinematics of a foil, stored per patch level;           *)
(*   - the time-stepping drivers (src/CPP_IBAMR_Baseline/main.cpp and the  *)
(*     Test 1 smoke-test driver src/unnamed/part_006);                     *)
(*   - the manufactured solution and source term of Test 4                 *)
(*     (src/unnamed/part_004);                                             *)
(*   - the Test04/Test05 drivers (src/IBAMR_CPP_Tests/Test04_MMS/main.cpp, *)
(*     src/unnamed/part_001), VV_Tests/run_all_tests.sh and Test 1's       *)
(*     run_test.sh (src/unnamed/part_005).                                 *)
(*                                                                         *)
(* doubles are fixed-point integers with three decimals (Fx = 1000), so    *)
(* 0.25 is 250, 15 degrees is 15000 and pi is 3142.                        *)
(***************************************************************************)
EXTENDS Integers, Sequences, FiniteSets, TLC

VARIABLES
    NDIM,        \* compile-time space dimension of the build (2 or 3)
    input_db,    \* the kinematics input database (key -> value)
    finest_ln,   \* what d_l_data_manager->getFinestPatchLevelNumber() returns now
    obj,         \* the FlappingFoilKinematics objects, by name
    last_op,     \* the operation that acted last: <<name, object, time>>
    driver,      \* which driver program runs: "baseline" or "smoke"
    pc,          \* position of the driver's main()
    integ,       \* the hierarchy integrator the driver owns
    loc,         \* main()'s local variables
    out,         \* what the driver has reported (pout, exit status) and ghosts
    mms,         \* the manufactured-solution test case (Test 4) being set up
    td,          \* a run of the Test04 or Test05 driver
    suite,       \* a run of VV_Tests/run_all_tests.sh
    t1           \* a run of Test 1's run_test.sh

kvars == <<NDIM, input_db, finest_ln, obj, last_op>>
dvars == <<driver, pc, integ, loc, out>>
tvars == <<mms, td, suite, t1>>
vars == <<kvars, dvars, tvars>>

----------------------------------------------------------------------------
(* Bounds of the model *)

\* finest patch level numbers range over 0..MaxLevel
MaxLevel == 1
\* requested times are 0, 0.125, ..., MaxTick * 0.125
MaxTick == 3
\* the integrator's step budget (max_integrator_steps) ranges over 1..MaxSteps
MaxSteps == 3

----------------------------------------------------------------------------
(* Fixed-point doubles and libm *)

Fx == 1000
M_PI == 3142

\* products and quotients of doubles, truncated to three decimals
Trunc(n, d) == IF n >= 0 THEN n \div d ELSE -((-n) \div d)
FxMul(a, b) == Trunc(a * b, Fx)
FxDiv(a, b) == Trunc(a * Fx, b)

\* std::cos and std::sin, tabulated at the multiples of 45 degrees; the
\* argument (radians) is rounded to the nearest multiple of pi/4.
CosTable == <<1000, 707, 0, -707, -1000, -707, 0, 707>>
SinTable == <<0, 707, 1000, 707, 0, -707, -1000, -707>>
AngleIndex(x) == ((16 * x + 2 * M_PI) \div (4 * M_PI)) % 8
std_cos(x) == CosTable[AngleIndex(x) + 1]
std_sin(x) == SinTable[AngleIndex(x) + 1]

\* a conversion that leaves the value as it is
deg_to_rad_Unconverted(deg) == deg

\* deg * M_PI / 180.0
deg_to_rad(deg) == FxDiv(FxMul(deg, M_PI), 180 * Fx)

----------------------------------------------------------------------------
(* The input database of one kinematics object *)

RequiredKeys == {"frequency", "heave_amplitude", "pitch_amplitude"}
OptionalKeys == {"phase_offset", "pivot_point_x", "pivot_point_y",
                 "initial_offset_x", "initial_offset_y"}
CampaignKeys == {"start_time", "stop_time"}

keyExists(db, key) == key \in DOMAIN db
getDouble(db, key) == db[key]

\* every value a database of the model may hold, by key
FullDbs ==
    [ frequency       : {1000, 2000},
      heave_amplitude : {500},
      pitch_amplitude : {15000},
      phase_offset    : {45000},
      pivot_point_x   : {500},
      pivot_point_y   : {100},
      initial_offset_x : {200},
      initial_offset_y : {-100},
      start_time      : {125},
      stop_time       : {250} ]

KeySets ==
    { RequiredKeys,
      RequiredKeys \cup {"phase_offset"},
      RequiredKeys \cup CampaignKeys,
      RequiredKeys \ {"frequency"},
      RequiredKeys \ {"heave_amplitude"},
      RequiredKeys \ {"pitch_amplitude"},
      {"pitch_amplitude", "phase_offset"},
      {"frequency", "pivot_point_x"},
      {} }

\* databases with one optional key, or all of them, besides the required ones
OptionalKeySets ==
    { RequiredKeys \cup {k} : k \in OptionalKeys \ {"phase_offset"} }
        \cup { RequiredKeys \cup OptionalKeys }

\* the flapping_foil database of the README's complete example input file:
\* FREQUENCY = 0.5, HEAVE_AMPLITUDE = 0.2, PITCH_AMPLITUDE = 0.262,
\* PHASE_OFFSET = 1.571
ReadmeExampleDb ==
    [ frequency       |-> 500,
      heave_amplitude |-> 200,
      pitch_amplitude |-> 262,
      phase_offset    |-> 1571 ]

InputDbs ==
    { [k \in S |-> full[k]] : full \in FullDbs, S \in KeySets }
        \cup { [k \in S |-> full[k]] :
                  full \in { d \in FullDbs : d.frequency = 1000 }, S \in OptionalKeySets }
        \cup { ReadmeExampleDb }

TimeValues == { 125 * k : k \in 0..MaxTick }
CenterOfMassValues == { <<0, 0>>, <<250, 0>> }
Objects == {"a", "b"}

----------------------------------------------------------------------------
(* FlappingFoilKinematics *)

\* the initializer list with the pivot at the leading edge
InitialMembers_PivotAtLeadingEdge ==
    [ d_frequency        |-> 0,
      d_omega            |-> 0,
      d_heave_amplitude  |-> 0,
      d_pitch_amplitude  |-> 0,
      d_phase_offset     |-> 0,
      d_pivot_point_x    |-> 0,
      d_pivot_point_y    |-> 0,
      d_initial_offset_x |-> 0,
      d_initial_offset_y |-> 0,
      d_current_time     |-> 0,
      tbox_error         |-> "" ]

\* the members after the constructor's initializer list
InitialMembers ==
    [ d_frequency        |-> 0,
      d_omega            |-> 0,
      d_heave_amplitude  |-> 0,
      d_pitch_amplitude  |-> 0,
      d_phase_offset     |-> 0,
      d_pivot_point_x    |-> 250,
      d_pivot_point_y    |-> 0,
      d_initial_offset_x |-> 0,
      d_initial_offset_y |-> 0,
      d_current_time     |-> 0,
      tbox_error         |-> "" ]

\* getFromInput once the three required keys are known to exist: the
\* required values, and the optional ones or their defaults
ReadAllKeys(db) ==
    [InitialMembers EXCEPT
        !.d_frequency = getDouble(db, "frequency"),
        !.d_heave_amplitude = getDouble(db, "heave_amplitude"),
        !.d_pitch_amplitude = deg_to_rad(getDouble(db, "pitch_amplitude")),
        !.d_phase_offset =
            IF keyExists(db, "phase_offset")
            THEN deg_to_rad(getDouble(db, "phase_offset"))
            ELSE deg_to_rad(90 * Fx),
        !.d_pivot_point_x =
            IF keyExists(db, "pivot_point_x")
            THEN getDouble(db, "pivot_point_x") ELSE @,
        !.d_pivot_point_y =
            IF keyExists(db, "pivot_point_y")
            THEN getDouble(db, "pivot_point_y") ELSE @,
        !.d_initial_offset_x =
            IF keyExists(db, "initial_offset_x")
            THEN getDouble(db, "initial_offset_x") ELSE @,
        !.d_initial_offset_y =
            IF keyExists(db, "initial_offset_y")
            THEN getDouble(db, "initial_offset_y") ELSE @ ]

\* getFromInput with the required keys checked in the reverse order
getFromInput_PitchCheckedFirst(db) ==
    IF ~keyExists(db, "pitch_amplitude")
    THEN [InitialMembers EXCEPT !.tbox_error = "pitch_amplitude"]
    ELSE IF ~keyExists(db, "heave_amplitude")
    THEN [InitialMembers EXCEPT !.tbox_error = "heave_amplitude"]
    ELSE IF ~keyExists(db, "frequency")
    THEN [InitialMembers EXCEPT !.tbox_error = "frequency"]
    ELSE ReadAllKeys(db)

\* getFromInput: the members it assigns; tbox_error names the first missing
\* required key (TBOX_ERROR aborts there, later keys are not read).
getFromInput(db) ==
    IF ~keyExists(db, "frequency")
    THEN [InitialMembers EXCEPT !.tbox_error = "frequency"]
    ELSE IF ~keyExists(db, "heave_amplitude")
    THEN [InitialMembers EXCEPT !.d_frequency = getDouble(db, "frequency"),
                                !.tbox_error = "heave_amplitude"]
    ELSE IF ~keyExists(db, "pitch_amplitude")
    THEN [InitialMembers EXCEPT !.d_frequency = getDouble(db, "frequency"),
                                !.d_heave_amplitude = getDouble(db, "heave_amplitude"),
                                !.tbox_error = "pitch_amplitude"]
    ELSE ReadAllKeys(db)

\* d_omega = 2.0 * M_PI * d_frequency
AngularFrequency(f) == FxMul(FxMul(2 * Fx, M_PI), f)

\* size of d_new_kinematics_vel: NDIM + (NDIM == 2 ? 1 : 3)
VelSize(ndim) == ndim + (IF ndim = 2 THEN 1 ELSE 3)

Zeros(n) == [i \in 1..n |-> 0]

\* computeHeaveKinematics: <<h, h_dot>>
computeHeaveKinematics(o, time) ==
    << FxMul(o.d_heave_amplitude, std_sin(FxMul(o.d_omega, time))),
       FxMul(FxMul(o.d_heave_amplitude, o.d_omega), std_cos(FxMul(o.d_omega, time))) >>

\* computePitchKinematics: <<theta, theta_dot>>
computePitchKinematics(o, time) ==
    << FxMul(o.d_pitch_amplitude,
             std_sin(FxMul(o.d_omega, time) + o.d_phase_offset)),
       FxMul(FxMul(o.d_pitch_amplitude, o.d_omega),
             std_cos(FxMul(o.d_omega, time) + o.d_phase_offset)) >>

\* the assignments to d_new_kinematics_vel (indices are the code's 0-based
\* ones plus one); entries the code does not assign keep their old value
NewKinematicsVel(ndim, old, h_dot, theta_dot) ==
    IF ndim = 2
    THEN [old EXCEPT ![1] = 0, ![2] = h_dot, ![3] = theta_dot]
    ELSE [old EXCEPT ![1] = 0, ![2] = h_dot, ![3] = 0, ![4] = 0, ![5] = theta_dot]

\* an object that does not exist (not constructed, or destroyed)
NoObject ==
    [ status             |-> "none",
      m                  |-> InitialMembers,
      d_center_of_mass   |-> <<>>,
      d_new_kinematics_vel |-> <<>>,
      d_kinematics_vel   |-> <<>>,
      d_shape            |-> <<>>,
      St_approx          |-> 0,      \* the Strouhal number the constructor printed
      St_reports         |-> 0,      \* how many times a Strouhal number was printed
      called_ln          |-> -1,     \* finest level number at the last call, -1: no call yet
      heap_corrupt       |-> FALSE ] \* a write past the end of a vector has happened

KinInit ==
    /\ NDIM \in {2, 3}
    /\ input_db \in InputDbs
    /\ finest_ln \in 0..MaxLevel
    /\ obj = [o \in Objects |-> NoObject]
    /\ last_op = <<"none", "", 0>>

\* The constructor: getFromInput, d_omega, the per-level vectors sized to the
\* finest level number in force, and the reported Strouhal number.
ConstructFrom(o, db) ==
    /\ obj[o].status = "none"
    /\ LET got == getFromInput(db) IN
       IF got.tbox_error # ""
       THEN obj' = [obj EXCEPT ![o] = [NoObject EXCEPT !.status = "aborted", !.m = got]]
       ELSE obj' = [obj EXCEPT ![o] =
                [ status             |-> "ready",
                  m                  |-> [got EXCEPT !.d_omega = AngularFrequency(got.d_frequency)],
                  d_center_of_mass   |-> <<>>,
                  d_new_kinematics_vel |-> Zeros(VelSize(NDIM)),
                  d_kinematics_vel   |-> [ln \in 1..(finest_ln + 1) |-> <<>>],
                  d_shape            |-> [ln \in 1..(finest_ln + 1) |-> <<>>],
                  St_approx          |-> FxMul(got.d_frequency, FxMul(2 * Fx, got.d_heave_amplitude)),
                  St_reports         |-> 1,
                  called_ln          |-> -1,
                  heap_corrupt       |-> FALSE ]]
    /\ last_op' = <<"construct", o, 0>>
    /\ UNCHANGED <<NDIM, input_db, finest_ln, dvars, tvars>>

\* construction from the input database of the run
Construct(o) == ConstructFrom(o, input_db)

\* the keys that place the foil: pivot point and initial offset
PlacementKeys == {"pivot_point_x", "pivot_point_y", "initial_offset_x", "initial_offset_y"}

\* a database that differs from db in the placement keys only: those db has
\* are left out, those it lacks are given
PlacementVariant(db) ==
    LET full == CHOOSE d \in FullDbs : TRUE
    IN [k \in (DOMAIN db \ PlacementKeys) \cup (PlacementKeys \ DOMAIN db) |->
          IF k \in DOMAIN db THEN db[k] ELSE full[k]]

\* The level loop "for ln = 0..finest_ln: d_kinematics_vel[ln] = vel" on a
\* vector of Len(levels) entries: the entries that exist are assigned.
StoreInLevels(levels, vel, finest) ==
    [ln \in 1..Len(levels) |-> IF ln <= finest + 1 THEN vel ELSE levels[ln]]

\* The body of setKinematicsVelocity.  When the finest level number exceeds
\* the size the vectors got at construction, the level loop writes past the
\* end of d_kinematics_vel: undefined behaviour, modelled as a crash of the
\* process or a silent corruption of the heap.
StoreKinematicsVelocity(o, time, center_of_mass) ==
    /\ obj[o].status = "ready"
    /\ LET cur == obj[o]
           h == computeHeaveKinematics(cur.m, time)
           th == computePitchKinematics(cur.m, time)
           vel == NewKinematicsVel(NDIM, cur.d_new_kinematics_vel, h[2], th[2])
           written == [cur EXCEPT
                         !.m.d_current_time = time,
                         !.d_center_of_mass = center_of_mass,
                         !.d_new_kinematics_vel = vel,
                         !.called_ln = finest_ln,
                         !.d_kinematics_vel = StoreInLevels(@, vel, finest_ln)]
       IN IF finest_ln + 1 <= Len(cur.d_kinematics_vel)
          THEN obj' = [obj EXCEPT ![o] = written]
          ELSE \/ obj' = [obj EXCEPT ![o] = [written EXCEPT !.status = "crashed"]]
               \/ obj' = [obj EXCEPT ![o] = [written EXCEPT !.heap_corrupt = TRUE]]
    /\ last_op' = <<"setKinematicsVelocity", o, time>>
    /\ UNCHANGED <<NDIM, input_db, finest_ln, dvars, tvars>>

\* whether the database configures a campaign that excludes the time
OutsideCampaign(db, time) ==
    \/ keyExists(db, "start_time") /\ time < getDouble(db, "start_time")
    \/ keyExists(db, "stop_time") /\ time > getDouble(db, "stop_time")

\* setKinematicsVelocity with a campaign check in front of its body
setKinematicsVelocity_RangeChecked(o, time, center_of_mass) ==
    IF OutsideCampaign(input_db, time)
    THEN /\ obj[o].status = "ready"
         /\ obj' = [obj EXCEPT ![o].status = "aborted",
                               ![o].m.tbox_error = "KinematicsOutOfRange"]
         /\ last_op' = <<"setKinematicsVelocity", o, time>>
         /\ UNCHANGED <<NDIM, input_db, finest_ln, dvars, tvars>>
    ELSE StoreKinematicsVelocity(o, time, center_of_mass)

\* setKinematicsVelocity(time, _, center_of_mass, _): every time is accepted
setKinematicsVelocity(o, time, center_of_mass) ==
    StoreKinematicsVelocity(o, time, center_of_mass)

\* setShape that computes and prints the Strouhal number again
setShape_ReportsStrouhal(o, time) ==
    /\ obj[o].status = "ready"
    /\ LET cur == obj[o]
           cleared == [cur EXCEPT
                         !.d_shape = StoreInLevels(@, <<>>, finest_ln),
                         !.St_approx = FxMul(cur.m.d_frequency,
                                             FxMul(2 * Fx, cur.m.d_heave_amplitude)),
                         !.St_reports = @ + 1]
       IN IF finest_ln + 1 <= Len(cur.d_shape)
          THEN obj' = [obj EXCEPT ![o] = cleared]
          ELSE \/ obj' = [obj EXCEPT ![o] = [cleared EXCEPT !.status = "crashed"]]
               \/ obj' = [obj EXCEPT ![o] = [cleared EXCEPT !.heap_corrupt = TRUE]]
    /\ last_op' = <<"setShape", o, time>>
    /\ UNCHANGED <<NDIM, input_db, finest_ln, dvars, tvars>>

\* setShape(time, _): d_shape[ln].clear() for ln = 0..finest_ln; the same
\* write past the end when the finest level number has grown.
setShape(o, time) ==
    /\ obj[o].status = "ready"
    /\ LET cur == obj[o]
           cleared == [cur EXCEPT !.d_shape = StoreInLevels(@, <<>>, finest_ln)]
       IN IF finest_ln + 1 <= Len(cur.d_shape)
          THEN obj' = [obj EXCEPT ![o] = cleared]
          ELSE \/ obj' = [obj EXCEPT ![o] = [cleared EXCEPT !.status = "crashed"]]
               \/ obj' = [obj EXCEPT ![o] = [cleared EXCEPT !.heap_corrupt = TRUE]]
    /\ last_op' = <<"setShape", o, time>>
    /\ UNCHANGED <<NDIM, input_db, finest_ln, dvars, tvars>>

\* A regrid of the patch hierarchy changes the finest level number.
Regrid ==
    /\ \E ln \in 0..MaxLevel : ln # finest_ln /\ finest_ln' = ln
    /\ last_op' = <<"regrid", "", 0>>
    /\ UNCHANGED <<NDIM, input_db, obj, dvars, tvars>>

\* The run ends and is restarted: the object is destroyed and can be
\* constructed again from the same database.
Restart(o) ==
    /\ obj[o].status # "none"
    /\ obj' = [obj EXCEPT ![o] = NoObject]
    /\ last_op' = <<"restart", o, 0>>
    /\ UNCHANGED <<NDIM, input_db, finest_ln, dvars, tvars>>

----------------------------------------------------------------------------
(* The drivers: main() of the baseline driver and of the Test 1 driver.    *)
(* Visualization, restart and timer dumps write files only and are left    *)
(* out; every other statement of main() belongs to one of the steps below. *)

DtValues == {1, 2}
EndTimes == {2, 3}

\* the part of the input file main() reads
DriverInputs ==
    [ periodic       : BOOLEAN,     \* periodic_shift.min() > 0
      OdorBcCoefs    : BOOLEAN,     \* keyExists("OdorBcCoefs")
      has_kappa      : BOOLEAN,     \* keyExists("diffusion_coefficient")
      kappa          : {-1, 0, 1},  \* getDouble("diffusion_coefficient")
      end_time       : EndTimes,
      max_steps      : 1..MaxSteps ]

NewIntegrator(in, scalar) ==
    [ phase          |-> "Uninitialized",
      initialized    |-> FALSE,
      step           |-> 0,
      time           |-> 0,
      end_time       |-> in.end_time,
      max_steps      |-> in.max_steps,
      u_bc           |-> 0,          \* velocity boundary conditions registered
      C_bc           |-> 0,          \* scalar boundary conditions registered
      kappa_set      |-> FALSE,
      kappa          |-> 0,
      kinematics     |-> 0,          \* kinematics objects registered with the IB method
      field          |-> scalar ]    \* the scalar field: "absent", "finite" or "nan"

NoLocals ==
    [ in             |-> CHOOSE in \in DriverInputs : TRUE,
      u_bc_coefs     |-> 0,          \* non-null entries of u_bc_coefs
      C_bc_coef      |-> FALSE,      \* C_bc_coef != nullptr
      ops_vec        |-> 0,          \* size of ibkinematics_ops_vec
      iteration_num  |-> 0,
      loop_time      |-> 0,
      loop_time_end  |-> 0,
      dt             |-> 0 ]

NoOutput ==
    [ last_print     |-> "",
      success        |-> FALSE,      \* "completed successfully!" was printed
      exit_status    |-> "none",     \* "none" while running, "0", or "abort"
      advance_calls  |-> 0,          \* advanceHierarchy invocations so far
      failed         |-> FALSE,      \* an advanceHierarchy call raised an error
      ever_nan       |-> FALSE ]     \* the scalar field held NaN/Inf after a step

\* HierarchyIntegrator::stepsRemaining()
stepsRemaining(i) == i.step < i.max_steps /\ i.time < i.end_time
\* MathUtilities<double>::equalEps / IBTK::rel_equal_eps
equalEps(a, b) == a = b

DriverIdle ==
    /\ driver = "none"
    /\ pc = "idle"
    /\ integ = NewIntegrator(NoLocals.in, "absent")
    /\ loc = NoLocals
    /\ out = NoOutput

KinIdle ==
    /\ NDIM = 2
    /\ input_db = CHOOSE db \in InputDbs : TRUE
    /\ finest_ln = 0
    /\ obj = [o \in Objects |-> NoObject]
    /\ last_op = <<"none", "", 0>>

\* main() up to the creation of the integrators, grid and gridding algorithm
DriverInit ==
    /\ driver \in {"baseline", "smoke"}
    /\ pc = "boundary_conditions"
    /\ \E in \in DriverInputs :
         /\ loc = [NoLocals EXCEPT !.in = in]
         /\ integ = NewIntegrator(in, IF driver = "smoke" THEN "finite" ELSE "absent")
    /\ out = NoOutput

\* "Set scalar boundary conditions", "Set diffusion coefficient" (Test 1
\* only) and "Set velocity boundary conditions" (both drivers)
SetBoundaryConditions ==
    /\ pc = "boundary_conditions"
    /\ LET in == loc.in
           scalar_bc == driver = "smoke" /\ ~in.periodic /\ in.OdorBcCoefs
           set_kappa == driver = "smoke" /\ in.has_kappa
       IN /\ loc' = [loc EXCEPT !.C_bc_coef = scalar_bc,
                                !.u_bc_coefs = IF in.periodic THEN 0 ELSE NDIM]
          /\ integ' = [integ EXCEPT
                         !.C_bc = IF scalar_bc THEN 1 ELSE 0,
                         !.kappa_set = set_kappa,
                         !.kappa = IF set_kappa THEN in.kappa ELSE @,
                         !.u_bc = IF in.periodic THEN 0 ELSE NDIM]
    /\ pc' = "init_hierarchy"
    /\ UNCHANGED <<driver, out, kvars, tvars>>

\* main() with the initializePatchHierarchy call left out
InitializePatchHierarchy_Skipped ==
    /\ pc = "init_hierarchy"
    /\ pc' = IF driver = "baseline" THEN "kinematics" ELSE "read_initial"
    /\ UNCHANGED <<driver, integ, loc, out, kvars, tvars>>

\* time_integrator->initializePatchHierarchy(patch_hierarchy, gridding_algorithm)
InitializePatchHierarchy ==
    /\ pc = "init_hierarchy"
    /\ integ' = [integ EXCEPT !.initialized = TRUE, !.phase = "Initialized"]
    /\ pc' = IF driver = "baseline" THEN "kinematics" ELSE "read_initial"
    /\ UNCHANGED <<driver, loc, out, kvars, tvars>>

\* baseline: one IBEELKinematics object is created and pushed back (four times)
CreateKinematics ==
    /\ pc = "kinematics"
    /\ loc.ops_vec < 4
    /\ loc' = [loc EXCEPT !.ops_vec = @ + 1]
    /\ UNCHANGED <<driver, pc, integ, out, kvars, tvars>>

\* baseline: ib_method_ops->registerConstraintIBKinematics(ibkinematics_ops_vec)
RegisterKinematics ==
    /\ pc = "kinematics"
    /\ loc.ops_vec = 4
    /\ integ' = [integ EXCEPT !.kinematics = loc.ops_vec]
    /\ pc' = "read_initial"
    /\ UNCHANGED <<driver, loc, out, kvars, tvars>>

\* iteration_num, loop_time, loop_time_end and dt before the loop
ReadInitial ==
    /\ pc = "read_initial"
    /\ loc' = [loc EXCEPT !.iteration_num = integ.step,
                          !.loop_time = integ.time,
                          !.loop_time_end = integ.end_time,
                          !.dt = 0]
    /\ pc' = "loop_test"
    /\ UNCHANGED <<driver, integ, out, kvars, tvars>>

\* a loop test that looks at the time only, not at the step budget
LoopTest_IgnoresStepBudget ==
    /\ pc = "loop_test"
    /\ pc' = IF ~equalEps(loc.loop_time, loc.loop_time_end) /\ integ.time < integ.end_time
             THEN "loop_head" ELSE "cleanup"
    /\ UNCHANGED <<driver, integ, loc, out, kvars, tvars>>

\* while (!equalEps(loop_time, loop_time_end) && stepsRemaining())
LoopTest ==
    /\ pc = "loop_test"
    /\ pc' = IF ~equalEps(loc.loop_time, loc.loop_time_end) /\ stepsRemaining(integ)
             THEN "loop_head" ELSE "cleanup"
    /\ UNCHANGED <<driver, integ, loc, out, kvars, tvars>>

\* the loop body up to dt = getMaximumTimeStepSize()
LoopHead ==
    /\ pc = "loop_head"
    /\ \E dt \in DtValues :
         loc' = [loc EXCEPT !.iteration_num = integ.step,
                            !.loop_time = integ.time,
                            !.dt = dt]
    /\ out' = [out EXCEPT !.last_print = "At beginning of timestep"]
    /\ pc' = "advance"
    /\ UNCHANGED <<driver, integ, kvars, tvars>>

\* what advanceHierarchy(dt) does to the integrator when it returns
Advanced(i, dt, field) ==
    [i EXCEPT !.phase = "Stepping", !.step = @ + 1, !.time = @ + dt, !.field = field]

\* the rest of the loop body after advanceHierarchy returned
AfterAdvance(field) ==
    /\ integ' = Advanced(integ, loc.dt, field)
    /\ loc' = [loc EXCEPT !.loop_time = @ + loc.dt, !.iteration_num = @ + 1]
    /\ out' = [out EXCEPT !.last_print = "At end of timestep",
                          !.advance_calls = @ + 1,
                          !.ever_nan = @ \/ field = "nan"]
    /\ pc' = "loop_test"
    /\ UNCHANGED <<driver, kvars, tvars>>

\* advanceHierarchy(dt) returns and the fields are finite
AdvanceHierarchy ==
    /\ pc = "advance"
    /\ integ.field # "nan"
    /\ AfterAdvance(integ.field)

\* advanceHierarchy(dt) returns and the scalar field holds NaN/Inf (the
\* solver diverged); a field that holds NaN keeps it
AdvanceHierarchyDiverges ==
    /\ pc = "advance"
    /\ driver = "smoke"
    /\ AfterAdvance("nan")

\* a handler around advanceHierarchy that calls it again after an error
AdvanceHierarchyFails_Retried ==
    /\ pc = "advance"
    /\ integ' = [integ EXCEPT !.phase = "Stepping"]
    /\ out' = [out EXCEPT !.advance_calls = @ + 1, !.failed = TRUE]
    /\ pc' = "advance"
    /\ UNCHANGED <<driver, loc, kvars, tvars>>

\* advanceHierarchy(dt) raises an error; main() has no handler
AdvanceHierarchyFails ==
    /\ pc = "advance"
    /\ integ' = [integ EXCEPT !.phase = "Stepping"]
    /\ out' = [out EXCEPT !.advance_calls = @ + 1, !.failed = TRUE,
                          !.exit_status = "abort"]
    /\ pc' = "aborted"
    /\ UNCHANGED <<driver, loc, kvars, tvars>>

\* a cleanup that returns without deleting the boundary-condition objects
Cleanup_KeepsBoundaryConditions ==
    /\ pc = "cleanup"
    /\ integ' = [integ EXCEPT !.phase = "Finalized"]
    /\ out' = [out EXCEPT
                 !.last_print = IF driver = "smoke"
                                THEN "Test 1 (Smoke Test) completed successfully!"
                                ELSE @,
                 !.success = driver = "smoke",
                 !.exit_status = "0"]
    /\ pc' = "done"
    /\ UNCHANGED <<driver, loc, kvars, tvars>>

\* "Cleanup": the boundary-condition objects are deleted; Test 1 prints
\* its success banner; return 0
Cleanup ==
    /\ pc = "cleanup"
    /\ integ' = [integ EXCEPT !.phase = "Finalized"]
    /\ loc' = [loc EXCEPT !.u_bc_coefs = 0, !.C_bc_coef = FALSE]
    /\ out' = [out EXCEPT
                 !.last_print = IF driver = "smoke"
                                THEN "Test 1 (Smoke Test) completed successfully!"
                                ELSE @,
                 !.success = driver = "smoke",
                 !.exit_status = "0"]
    /\ pc' = "done"
    /\ UNCHANGED <<driver, kvars, tvars>>

----------------------------------------------------------------------------
(* Test 4, the method of manufactured solutions (src/unnamed/part_004).    *)
(* A function of (x, y, t) is a combination of the four products           *)
(*   "ss" = sin(pi x) sin(pi y),  "cs" = cos(pi x) sin(pi y),              *)
(*   "sc" = sin(pi x) cos(pi y),  "cc" = cos(pi x) cos(pi y),              *)
(* each times exp(-beta t), with a coefficient that is a polynomial in pi: *)
(* <<a0, a1, a2, a3>> stands for a0 + a1 pi + a2 pi^2 + a3 pi^3.           *)

Products == {"ss", "cs", "sc", "cc"}
ZeroPoly == <<0, 0, 0, 0>>
ZeroFunction == [p \in Products |-> ZeroPoly]

PolyAdd(a, b) == [i \in 1..4 |-> a[i] + b[i]]
PolyScale(k, a) == [i \in 1..4 |-> k * a[i]]
TimesPi(a) == <<0, a[1], a[2], a[3]>>

FunAdd(f, g) == [p \in Products |-> PolyAdd(f[p], g[p])]
FunScale(k, f) == [p \in Products |-> PolyScale(k, f[p])]

\* d/dx: sin(pi x) -> pi cos(pi x), cos(pi x) -> -pi sin(pi x)
D_x(f) ==
    [p \in Products |->
        CASE p = "cs" -> TimesPi(f["ss"])
          [] p = "ss" -> PolyScale(-1, TimesPi(f["cs"]))
          [] p = "cc" -> TimesPi(f["sc"])
          [] p = "sc" -> PolyScale(-1, TimesPi(f["cc"]))]

\* d/dy: sin(pi y) -> pi cos(pi y), cos(pi y) -> -pi sin(pi y)
D_y(f) ==
    [p \in Products |->
        CASE p = "sc" -> TimesPi(f["ss"])
          [] p = "ss" -> PolyScale(-1, TimesPi(f["sc"]))
          [] p = "cc" -> TimesPi(f["cs"])
          [] p = "cs" -> PolyScale(-1, TimesPi(f["cc"]))]

\* d/dt of g(x, y) exp(-beta t)
D_t(beta, f) == FunScale(-beta, f)

Laplacian(f) == FunAdd(D_x(D_x(f)), D_y(D_y(f)))

\* "Choose: C(x,y,t) = sin(pi x) sin(pi y) exp(-beta t)"
ManufacturedSolution == [ZeroFunction EXCEPT !["ss"] = <<1, 0, 0, 0>>]

\* "dC/dt + u.grad C - alpha laplacian C = S(x,y,t)": the left-hand side
PdeLhs(U0, V0, alpha, beta, C) ==
    FunAdd(FunAdd(D_t(beta, C), FunAdd(FunScale(U0, D_x(C)), FunScale(V0, D_y(C)))),
           FunScale(-alpha, Laplacian(C)))

\* the documented source term with the sign of the diffusion term reversed
SourceTerm_DiffusionSignReversed(U0, V0, alpha, beta) ==
    [ ss |-> <<-beta, 0, -2 * alpha, 0>>,
      cs |-> <<0, U0, 0, 0>>,
      sc |-> <<0, V0, 0, 0>>,
      cc |-> ZeroPoly ]

\* "Source Term": the four documented lines, [time derivative],
\* [advection x], [advection y], [diffusion]
SourceTerm(U0, V0, alpha, beta) ==
    [ ss |-> <<-beta, 0, 2 * alpha, 0>>,
      cs |-> <<0, U0, 0, 0>>,
      sc |-> <<0, V0, 0, 0>>,
      cc |-> ZeroPoly ]

\* "Setup": constant velocity (e.g. u = (1, 0.5)), alpha = 0.01, and decay rates
VelocityValues == {-1000, 0, 500, 1000}
AlphaValues == {0, 10, 100}
BetaValues == {0, 1000, 2000}

NoMms ==
    [ stage |-> "idle", U0 |-> 0, V0 |-> 0, alpha |-> 0, beta |-> 0,
      C |-> ZeroFunction, S |-> ZeroFunction ]

MmsIdle == mms = NoMms

\* the test case after the solution and the parameters are chosen
MmsInit ==
    \E U0 \in VelocityValues, V0 \in VelocityValues,
       alpha \in AlphaValues, beta \in BetaValues :
        mms = [ stage |-> "chosen", U0 |-> U0, V0 |-> V0, alpha |-> alpha,
                beta |-> beta, C |-> ManufacturedSolution, S |-> ZeroFunction ]

\* "Source term computed from manufactured solution"
ComputeSourceTerm ==
    /\ mms.stage = "chosen"
    /\ mms' = [mms EXCEPT !.stage = "sourced",
                          !.S = SourceTerm(mms.U0, mms.V0, mms.alpha, mms.beta)]
    /\ UNCHANGED <<kvars, dvars, td, suite, t1>>

----------------------------------------------------------------------------
(* The Test04 (MMS) and Test05 (Discontinuous) drivers: the two main()     *)
(* functions differ only in the test's name and file names.                *)

TestDrivers == {"Test04", "Test05"}

\* exit statuses are integers; -1 stands for a program that has not exited
Running == -1

NoTd ==
    [ test           |-> "none",
      pc             |-> "idle",
      criterion      |-> FALSE,    \* whether the test's pass criterion holds for the solver
      test_passed    |-> FALSE,
      logged         |-> "none",   \* logger.logTestResult: "none", "passed" or "failed"
      footer         |-> "none",   \* printTestFooter: "none", "passed" or "failed"
      footer_message |-> "",
      exit_status    |-> Running ]

TdIdle == td = NoTd

TdInit ==
    \E test \in TestDrivers, criterion \in BOOLEAN :
        td = [NoTd EXCEPT !.test = test, !.pc = "start", !.criterion = criterion]

Verdict(passed) == IF passed THEN "passed" ELSE "failed"

\* printTestHeader, the timer, "bool test_passed = true", the logger
TdBegin ==
    /\ td.pc = "start"
    /\ td' = [td EXCEPT !.test_passed = TRUE, !.pc = "body"]
    /\ UNCHANGED <<kvars, dvars, mms, suite, t1>>

\* the block: AppInitializer, "Test implementation pending...",
\* "test_passed = false"
TdBody ==
    /\ td.pc = "body"
    /\ td' = [td EXCEPT !.test_passed = FALSE, !.pc = "log"]
    /\ UNCHANGED <<kvars, dvars, mms, suite, t1>>

\* logger.logTestResult(name, test_passed)
TdLogResult ==
    /\ td.pc = "log"
    /\ td' = [td EXCEPT !.logged = Verdict(td.test_passed), !.pc = "footer"]
    /\ UNCHANGED <<kvars, dvars, mms, suite, t1>>

\* printTestFooter(name, test_passed, message)
TdFooter ==
    /\ td.pc = "footer"
    /\ td' = [td EXCEPT
                !.footer = Verdict(td.test_passed),
                !.footer_message = IF td.test_passed THEN "Test completed"
                                   ELSE "Test not yet implemented",
                !.pc = "return"]
    /\ UNCHANGED <<kvars, dvars, mms, suite, t1>>

\* return test_passed ? 0 : 1
TdReturn ==
    /\ td.pc = "return"
    /\ td' = [td EXCEPT !.exit_status = IF td.test_passed THEN 0 ELSE 1,
                        !.pc = "returned"]
    /\ UNCHANGED <<kvars, dvars, mms, suite, t1>>

----------------------------------------------------------------------------
(* VV_Tests/run_all_tests.sh *)

\* the run_test calls of the script: Test 1 .. Test 14
NumTests == 14
TestNumbers == 1..NumTests

\* what run_test.sh of a test can return
RunTestStatuses == {0, 1}

\* the tests whose directory and run_test.sh exist: all of them, all but
\* Test 2, the directories of this repository, Test 1 alone, none
FileSystems ==
    { TestNumbers, TestNumbers \ {2}, {1, 6, 8, 9, 11}, {1}, {} }

NoSuite ==
    [ pc             |-> "idle",
      present        |-> {},
      next           |-> 1,        \* the run_test call the script is at
      PASSED_TESTS   |-> <<>>,
      FAILED_TESTS   |-> <<>>,
      ran            |-> <<>>,     \* <<test, status>> of every run_test.sh executed
      not_implemented |-> <<>>,    \* the tests reported as "not implemented yet"
      listed         |-> <<>>,     \* the tests printed under "Failed tests:"
      all_passed     |-> FALSE,    \* "ALL TESTS PASSED" was printed
      exit_status    |-> Running ]

SuiteIdle == suite = NoSuite

SuiteInit ==
    \E present \in FileSystems :
        suite = [NoSuite EXCEPT !.pc = "run_tests", !.present = present]

\* run_test for a test whose run_test.sh exists and returns status rc
RunTestReturned(rc) ==
    [suite EXCEPT
        !.PASSED_TESTS = IF rc = 0 THEN Append(@, suite.next) ELSE @,
        !.FAILED_TESTS = IF rc = 0 THEN @ ELSE Append(@, suite.next),
        !.ran = Append(@, <<suite.next, rc>>),
        !.next = @ + 1]

\* a script that stops at the first failing test
RunTest_Executed_StopsOnFailure ==
    /\ suite.pc = "run_tests"
    /\ suite.next \in TestNumbers
    /\ suite.next \in suite.present
    /\ \E rc \in RunTestStatuses :
         suite' = IF rc = 0 THEN RunTestReturned(rc)
                  ELSE [RunTestReturned(rc) EXCEPT
                          !.pc = "exited", !.exit_status = 1,
                          !.listed = RunTestReturned(rc).FAILED_TESTS]
    /\ UNCHANGED <<kvars, dvars, mms, td, t1>>

\* run_test: the directory and run_test.sh exist, ./run_test.sh is executed
RunTest_Executed ==
    /\ suite.pc = "run_tests"
    /\ suite.next \in TestNumbers
    /\ suite.next \in suite.present
    /\ \E rc \in RunTestStatuses : suite' = RunTestReturned(rc)
    /\ UNCHANGED <<kvars, dvars, mms, td, t1>>

\* run_test: "... not implemented yet"
RunTest_NotImplemented ==
    /\ suite.pc = "run_tests"
    /\ suite.next \in TestNumbers
    /\ suite.next \notin suite.present
    /\ suite' = [suite EXCEPT !.not_implemented = Append(@, suite.next),
                              !.next = @ + 1]
    /\ UNCHANGED <<kvars, dvars, mms, td, t1>>

\* "Summary": the tallies, then the failed tests and exit 1, or
\* "ALL TESTS PASSED" and exit 0
Summary ==
    /\ suite.pc = "run_tests"
    /\ suite.next = NumTests + 1
    /\ suite' = IF Len(suite.FAILED_TESTS) > 0
                THEN [suite EXCEPT !.listed = suite.FAILED_TESTS,
                                   !.exit_status = 1, !.pc = "exited"]
                ELSE [suite EXCEPT !.all_passed = TRUE,
                                   !.exit_status = 0, !.pc = "exited"]
    /\ UNCHANGED <<kvars, dvars, mms, td, t1>>

----------------------------------------------------------------------------
(* Test 1's run_test.sh (src/unnamed/part_005) *)

\* exit statuses of mpirun ... ./test01_scalar_only: success, an error
\* return, a crash
SimulationStatuses == {0, 1, 139}
\* exit statuses of python3 analyze.py
AnalysisStatuses == {0, 1, 2}

\* the directory the script is started in
T1Environments ==
    [ binary         : BOOLEAN,    \* test01_scalar_only exists
      old_results    : BOOLEAN,    \* viz_test01 etc. of an earlier run exist
      IBAMR_DIR      : BOOLEAN,    \* $IBAMR_DIR is set
      CMakeLists     : BOOLEAN,    \* CMakeLists.txt exists
      main2d         : BOOLEAN ]   \* ../../main2d exists

NoT1 ==
    [ pc             |-> "idle",
      env            |-> CHOOSE e \in T1Environments : TRUE,
      binary         |-> FALSE,    \* test01_scalar_only exists now
      results        |-> "none",   \* results on disk: "none", "old" or "new"
      cleaned        |-> FALSE,
      built          |-> FALSE,    \* cmake, make and cp were attempted
      simulation_ran |-> FALSE,
      EXIT_CODE      |-> Running,
      analysis_ran   |-> FALSE,
      ANALYSIS_EXIT  |-> Running,
      printed        |-> {},       \* verdict lines printed so far
      exit_status    |-> Running ]

T1Idle == t1 = NoT1

T1Init ==
    \E env \in T1Environments :
        t1 = [NoT1 EXCEPT !.pc = "clean", !.env = env, !.binary = env.binary,
                          !.results = IF env.old_results THEN "old" ELSE "none"]

\* "Clean previous results": rm -rf viz_test01 test01.log test01_analysis.png
T1Clean ==
    /\ t1.pc = "clean"
    /\ t1' = [t1 EXCEPT !.results = "none", !.cleaned = TRUE, !.pc = "compile"]
    /\ UNCHANGED <<kvars, dvars, mms, td, suite>>

\* "Compile the test (if needed)": with a CMakeLists.txt, cmake, make and cp
\* are run and may or may not leave a binary; the script goes on either way
T1Compile ==
    /\ t1.pc = "compile"
    /\ IF t1.binary
       THEN t1' = [t1 EXCEPT !.pc = "run"]
       ELSE IF t1.env.CMakeLists
       THEN \E produced \in BOOLEAN :
              t1' = [t1 EXCEPT !.built = TRUE, !.binary = produced, !.pc = "run"]
       ELSE t1' = [t1 EXCEPT
                     !.printed = @ \cup {"WARNING: CMakeLists.txt not found."},
                     !.pc = "run"]
    /\ UNCHANGED <<kvars, dvars, mms, td, suite>>

\* "Run the simulation": the binary exists, mpirun returns rc
T1RunSimulation ==
    /\ t1.pc = "run"
    /\ t1.binary
    /\ \E rc \in SimulationStatuses :
         t1' = [t1 EXCEPT !.simulation_ran = TRUE, !.EXIT_CODE = rc,
                          !.results = IF rc = 0 THEN "new" ELSE @,
                          !.pc = "check"]
    /\ UNCHANGED <<kvars, dvars, mms, td, suite>>

\* "Run the simulation": no binary, "running analysis on existing data (if
\* any)", EXIT_CODE=0
T1BinaryNotFound ==
    /\ t1.pc = "run"
    /\ ~t1.binary
    /\ t1' = [t1 EXCEPT
                !.printed = @ \cup {"WARNING: test01_scalar_only binary not found."},
                !.EXIT_CODE = 0, !.pc = "check"]
    /\ UNCHANGED <<kvars, dvars, mms, td, suite>>

\* a check of the simulation's status that goes on to the analysis anyway
T1CheckSimulation_GoesOn ==
    /\ t1.pc = "check"
    /\ t1' = [t1 EXCEPT
                !.printed = IF t1.EXIT_CODE # 0 THEN @ \cup {"SIMULATION FAILED"} ELSE @,
                !.pc = "analysis"]
    /\ UNCHANGED <<kvars, dvars, mms, td, suite>>

\* "Check if simulation completed": exit $EXIT_CODE when it is not 0
T1CheckSimulation ==
    /\ t1.pc = "check"
    /\ t1' = IF t1.EXIT_CODE # 0
             THEN [t1 EXCEPT !.printed = @ \cup {"SIMULATION FAILED"},
                             !.exit_status = t1.EXIT_CODE, !.pc = "exited"]
             ELSE [t1 EXCEPT !.pc = "analysis"]
    /\ UNCHANGED <<kvars, dvars, mms, td, suite>>

\* python3 analyze.py; ANALYSIS_EXIT=$?
T1RunAnalysis ==
    /\ t1.pc = "analysis"
    /\ \E rc \in AnalysisStatuses :
         t1' = [t1 EXCEPT !.analysis_ran = TRUE, !.ANALYSIS_EXIT = rc, !.pc = "verdict"]
    /\ UNCHANGED <<kvars, dvars, mms, td, suite>>

\* "TEST 1 PASSED" and exit 0, or "TEST 1 FAILED" and exit 1
T1Verdict ==
    /\ t1.pc = "verdict"
    /\ t1' = IF t1.ANALYSIS_EXIT = 0
             THEN [t1 EXCEPT !.printed = @ \cup {"TEST 1 PASSED"},
                             !.exit_status = 0, !.pc = "exited"]
             ELSE [t1 EXCEPT !.printed = @ \cup {"TEST 1 FAILED"},
                             !.exit_status = 1, !.pc = "exited"]
    /\ UNCHANGED <<kvars, dvars, mms, td, suite>>

TestsIdle == TdIdle /\ SuiteIdle /\ T1Idle

----------------------------------------------------------------------------
(* Specifications *)

\* one kinematics object under calls, regrids and restarts
Init == KinInit /\ DriverIdle /\ MmsIdle /\ TestsIdle

Next ==
    \/ Construct("a")
    \/ \E t \in TimeValues, com \in CenterOfMassValues :
         setKinematicsVelocity("a", t, com)
    \/ \E t \in TimeValues : setShape("a", t)
    \/ Regrid
    \/ Restart("a")

Spec == Init /\ [][Next]_vars

\* two kinematics objects built from the same database on the same
\* hierarchy (a long-running object and one constructed after a restart,
\* or the objects of two ranks), each with a call history of its own
PairNext ==
    \/ \E o \in Objects : Construct(o)
    \/ \E o \in Objects, t \in TimeValues :
         setKinematicsVelocity(o, t, <<0, 0>>)
    \/ \E o \in Objects : setShape(o, 0)
    \/ Regrid
    \/ \E o \in Objects : Restart(o)

PairSpec == Init /\ [][PairNext]_vars

\* two runs on the same hierarchy that differ in the placement keys of
\* the database and in the center of mass passed to setKinematicsVelocity
PlacementNext ==
    \/ Construct("a")
    \/ ConstructFrom("b", PlacementVariant(input_db))
    \/ \E t \in TimeValues : setKinematicsVelocity("a", t, <<0, 0>>)
    \/ \E t \in TimeValues : setKinematicsVelocity("b", t, <<250, 0>>)
    \/ \E o \in Objects : setShape(o, 0)
    \/ Regrid
    \/ \E o \in Objects : Restart(o)

\* the pairs of runs are taken at the lowest frequency each key set has
PlacementInit ==
    /\ Init
    /\ keyExists(input_db, "frequency") => getDouble(input_db, "frequency") < 2000

PlacementSpec == PlacementInit /\ [][PlacementNext]_vars

\* one run of a driver
DriverSpecInit == KinIdle /\ DriverInit /\ MmsIdle /\ TestsIdle

DriverNext ==
    \/ SetBoundaryConditions
    \/ InitializePatchHierarchy
    \/ CreateKinematics
    \/ RegisterKinematics
    \/ ReadInitial
    \/ LoopTest
    \/ LoopHead
    \/ AdvanceHierarchy
    \/ AdvanceHierarchyDiverges
    \/ AdvanceHierarchyFails
    \/ Cleanup

DriverSpec == DriverSpecInit /\ [][DriverNext]_vars

\* one run of a driver in which every advanceHierarchy call returns; the
\* program keeps executing its next statement
DriverReturningNext ==
    \/ SetBoundaryConditions
    \/ InitializePatchHierarchy
    \/ CreateKinematics
    \/ RegisterKinematics
    \/ ReadInitial
    \/ LoopTest
    \/ LoopHead
    \/ AdvanceHierarchy
    \/ AdvanceHierarchyDiverges
    \/ Cleanup

DriverReturningSpec ==
    DriverSpecInit /\ [][DriverReturningNext]_vars /\ WF_vars(DriverReturningNext)

\* the set-up of the manufactured-solution test case
MmsSpecInit == KinIdle /\ DriverIdle /\ MmsInit /\ TestsIdle

MmsNext == ComputeSourceTerm

MmsSpec == MmsSpecInit /\ [][MmsNext]_vars

\* one run of one of the test programs: a Test04/Test05 driver,
\* run_all_tests.sh, or Test 1's run_test.sh
TestsSpecInit ==
    /\ KinIdle /\ DriverIdle /\ MmsIdle
    /\ \/ TdInit /\ SuiteIdle /\ T1Idle
       \/ TdIdle /\ SuiteInit /\ T1Idle
       \/ TdIdle /\ SuiteIdle /\ T1Init

TestsNext ==
    \/ TdBegin
    \/ TdBody
    \/ TdLogResult
    \/ TdFooter
    \/ TdReturn
    \/ RunTest_Executed
    \/ RunTest_NotImplemented
    \/ Summary
    \/ T1Clean
    \/ T1Compile
    \/ T1RunSimulation
    \/ T1BinaryNotFound
    \/ T1CheckSimulation
    \/ T1RunAnalysis
    \/ T1Verdict

TestsSpec == TestsSpecInit /\ [][TestsNext]_vars

----------------------------------------------------------------------------
(* Claims *)

\* the configured parameters, as the documentation names them
Cfg_f == getDouble(input_db, "frequency")
Cfg_h0 == getDouble(input_db, "heave_amplitude")
Cfg_theta0 == deg_to_rad(getDouble(input_db, "pitch_amplitude"))
Cfg_phi ==
    IF keyExists(input_db, "phase_offset")
    THEN deg_to_rad(getDouble(input_db, "phase_offset")) ELSE deg_to_rad(90 * Fx)
Cfg_w == FxMul(FxMul(2 * Fx, M_PI), Cfg_f)

\* d/dt of h(t) = h0 sin(w t) and of theta(t) = theta0 sin(w t + phi)
HeaveRate(t) == FxMul(FxMul(Cfg_h0, Cfg_w), std_cos(FxMul(Cfg_w, t)))
PitchRate(t) == FxMul(FxMul(Cfg_theta0, Cfg_w), std_cos(FxMul(Cfg_w, t) + Cfg_phi))

\* level ln (0-based) of object o holds velocity v
LevelHolds(o, ln, v) ==
    /\ ln + 1 <= Len(obj[o].d_kinematics_vel)
    /\ obj[o].d_kinematics_vel[ln + 1] = v

\* C1: advanceHierarchy is invoked only on an initialized hierarchy (in the
\* baseline driver only after the four kinematics objects are registered)
\* and never once cleanup has begun; the integrator moves only along
\* Uninitialized -> Initialized -> Stepping* -> Finalized.
C1_Lifecycle ==
    /\ [][ out'.advance_calls # out.advance_calls =>
             /\ integ.initialized
             /\ integ.phase \in {"Initialized", "Stepping"}
             /\ (driver = "baseline" => integ.kinematics = 4) ]_vars
    /\ [][ integ'.phase # integ.phase =>
             <<integ.phase, integ'.phase>> \in
                { <<"Uninitialized", "Initialized">>, <<"Initialized", "Stepping">>,
                  <<"Initialized", "Finalized">>, <<"Stepping", "Finalized">> } ]_vars

\* a baseline run that stepped and finished
C1_Witness ==
    /\ driver = "baseline"
    /\ pc = "done"
    /\ integ.phase = "Finalized"
    /\ out.advance_calls >= 2

\* C3: after setKinematicsVelocity(t, ...) in 2D every level 0..finest level
\* holds [0, h0 w cos(w t), theta0 w cos(w t + phi)] and d_current_time is t.
C3_VelocityAtEveryLevel ==
    \A o \in Objects :
        (NDIM = 2 /\ last_op[1] = "setKinematicsVelocity" /\ last_op[2] = o) =>
            LET t == last_op[3] IN
            /\ obj[o].status = "ready"
            /\ obj[o].m.d_current_time = t
            /\ \A ln \in 0..finest_ln :
                 LevelHolds(o, ln, <<0, HeaveRate(t), PitchRate(t)>>)

\* C4: two objects of the same configuration whose histories end with a
\* call at the same time hold identical velocities at every level
\* 0..finest level.
C4_HistoryIndependent ==
    \A o1, o2 \in Objects :
        ( /\ obj[o1].status = "ready" /\ obj[o2].status = "ready"
          /\ obj[o1].called_ln = finest_ln /\ obj[o2].called_ln = finest_ln
          /\ obj[o1].m.d_current_time = obj[o2].m.d_current_time ) =>
            \A ln \in 0..finest_ln :
                /\ ln + 1 <= Len(obj[o1].d_kinematics_vel)
                /\ LevelHolds(o2, ln, obj[o1].d_kinematics_vel[ln + 1])

\* C5: a step that leaves NaN/Inf in the scalar field is never reported as
\* completed, and the run is never reported as successful after such a step.
C5_UnstableStepFails ==
    /\ integ.field = "nan" =>
         out.last_print \notin { "At end of timestep",
                                 "Test 1 (Smoke Test) completed successfully!" }
    /\ out.ever_nan => ~out.success /\ out.exit_status # "0"

\* C7: once a step has failed, advanceHierarchy is not invoked again.
C7_NoAutomaticRetry ==
    [][ out.failed => out'.advance_calls = out.advance_calls ]_vars

\* a run whose third step failed, after two completed steps
C7_Witness ==
    /\ out.failed
    /\ pc = "aborted"
    /\ out.advance_calls = 3
    /\ integ.step = 2

C11_SourceTermConsistent ==
    mms.stage = "sourced" =>
        /\ mms.C = ManufacturedSolution
        /\ mms.S = PdeLhs(mms.U0, mms.V0, mms.alpha, mms.beta, mms.C)

\* the documented set-up u = (1, 0.5), alpha = 0.01 with a decaying
\* solution: every one of the four terms of the source is non-zero
C11_Witness ==
    /\ mms.stage = "sourced"
    /\ mms.U0 = 1000 /\ mms.V0 = 500 /\ mms.alpha = 10 /\ mms.beta = 1000
    /\ mms.S["ss"] = <<-1000, 0, 20, 0>>
    /\ mms.S["cs"] = <<0, 1000, 0, 0>>
    /\ mms.S["sc"] = <<0, 500, 0, 0>>

\* C13: once the hierarchy is initialized, a domain that is not periodic in
\* every direction has exactly one boundary-condition object registered
\* for each of the NDIM velocity components and (where the driver has a
\* scalar) exactly one for the scalar; a fully periodic domain has none.
C13_OneBcPerField ==
    integ.initialized =>
        IF loc.in.periodic
        THEN integ.u_bc = 0 /\ integ.C_bc = 0
        ELSE integ.u_bc = NDIM /\ (driver = "smoke" => integ.C_bc = 1)

\* C14: the diffusivity installed in the scalar integrator is strictly
\* positive.
C14_DiffusivityPositive ==
    integ.kappa_set => integ.kappa > 0

\* C15: in 3D the velocity stored by setKinematicsVelocity(t, ...) is
\* (0, h_dot, 0) followed by (0, 0, theta_dot): the pitch rate is the last
\* of the six components.
C15_PitchRateInOmegaZ ==
    \A o \in Objects :
        (NDIM = 3 /\ last_op[1] = "setKinematicsVelocity" /\ last_op[2] = o) =>
            obj[o].d_new_kinematics_vel =
                <<0, HeaveRate(last_op[3]), 0, 0, 0, PitchRate(last_op[3])>>

\* the first of frequency, heave_amplitude, pitch_amplitude that the
\* database lacks ("" when it has all three)
FirstMissingKey(db) ==
    IF ~keyExists(db, "frequency") THEN "frequency"
    ELSE IF ~keyExists(db, "heave_amplitude") THEN "heave_amplitude"
    ELSE IF ~keyExists(db, "pitch_amplitude") THEN "pitch_amplitude"
    ELSE ""

\* C16: construction from a database that lacks a required key ends in an
\* error naming the first missing key; such an object never becomes usable
\* and never holds a velocity, and setKinematicsVelocity never acts on it.
C16_MissingKeyAborts ==
    \A o \in Objects :
        /\ obj[o].status # "none" => obj[o].m.tbox_error = FirstMissingKey(input_db)
        /\ FirstMissingKey(input_db) # "" =>
             /\ obj[o].status \in {"none", "aborted"}
             /\ obj[o].d_new_kinematics_vel = <<>>
             /\ obj[o].d_kinematics_vel = <<>>
             /\ ~(last_op[1] \in {"setKinematicsVelocity", "setShape"} /\ last_op[2] = o)

\* a construction that failed on a database lacking both heave_amplitude
\* and pitch_amplitude: the error names heave_amplitude
C16_Witness ==
    /\ last_op = <<"construct", "a", 0>>
    /\ keyExists(input_db, "frequency")
    /\ ~keyExists(input_db, "heave_amplitude")
    /\ ~keyExists(input_db, "pitch_amplitude")
    /\ obj["a"].status = "aborted"
    /\ obj["a"].m.tbox_error = "heave_amplitude"

\* value * pi / 180 of a non-negative value
InRadians(deg) == (deg * M_PI) \div (180 * Fx)

\* phase_offset of the database in radians, 90 degrees when the key is absent
PhaseInRadians(db) ==
    IF keyExists(db, "phase_offset")
    THEN InRadians(getDouble(db, "phase_offset")) ELSE InRadians(90 * Fx)

\* C17: a constructed object stores pitch_amplitude and phase_offset
\* converted from degrees to radians, frequency and heave_amplitude as
\* given, and the angular frequency 2 pi frequency; the pitch rate computed
\* by setKinematicsVelocity uses the converted values.
C17_DegreesToRadians ==
    \A o \in Objects :
        obj[o].status = "ready" =>
            LET f == getDouble(input_db, "frequency")
                w == (2 * M_PI * f) \div Fx
                theta0 == InRadians(getDouble(input_db, "pitch_amplitude"))
                phi == PhaseInRadians(input_db)
            IN /\ obj[o].m.d_frequency = f
               /\ obj[o].m.d_heave_amplitude = getDouble(input_db, "heave_amplitude")
               /\ obj[o].m.d_omega = w
               /\ obj[o].m.d_pitch_amplitude = theta0
               /\ obj[o].m.d_phase_offset = phi
               /\ (NDIM = 2 /\ last_op[1] = "setKinematicsVelocity" /\ last_op[2] = o) =>
                    obj[o].d_new_kinematics_vel[3] =
                        FxMul(FxMul(theta0, w), std_cos(FxMul(w, last_op[3]) + phi))

\* 15 degrees and 45 degrees stored as 0.261 and 0.785 radians, and a pitch
\* rate computed from them that is not zero
C17_Witness ==
    /\ NDIM = 2
    /\ last_op[1] = "setKinematicsVelocity" /\ last_op[2] = "a"
    /\ obj["a"].status = "ready"
    /\ keyExists(input_db, "phase_offset")
    /\ getDouble(input_db, "pitch_amplitude") = 15000
    /\ getDouble(input_db, "phase_offset") = 45000
    /\ obj["a"].m.d_pitch_amplitude = 261
    /\ obj["a"].m.d_phase_offset = 785
    /\ obj["a"].d_new_kinematics_vel[3] # 0

\* C18: an object constructed from the README's complete example pitches
\* with amplitude 0.262 rad (15 degrees) and has a phase offset of
\* 1.571 rad (90 degrees).
C18_ReadmeExampleAngles ==
    \A o \in Objects :
        (input_db = ReadmeExampleDb /\ obj[o].status = "ready") =>
            /\ obj[o].m.d_pitch_amplitude = 262
            /\ obj[o].m.d_phase_offset = 1571

\* C19: a constructed object has, for every optional key, the value of the
\* key when the database has it and the default otherwise (phase offset 90
\* degrees, pivot (0.25, 0.0), initial offset (0.0, 0.0)), whatever other
\* keys are present; the required parameters are the database's values.
C19_OptionalDefaults ==
    \A o \in Objects :
        obj[o].status = "ready" =>
            LET Given(key, default) ==
                    IF keyExists(input_db, key) THEN getDouble(input_db, key) ELSE default
            IN /\ obj[o].m.d_phase_offset = InRadians(Given("phase_offset", 90 * Fx))
               /\ obj[o].m.d_pivot_point_x = Given("pivot_point_x", 250)
               /\ obj[o].m.d_pivot_point_y = Given("pivot_point_y", 0)
               /\ obj[o].m.d_initial_offset_x = Given("initial_offset_x", 0)
               /\ obj[o].m.d_initial_offset_y = Given("initial_offset_y", 0)
               /\ obj[o].m.d_frequency = getDouble(input_db, "frequency")
               /\ obj[o].m.d_heave_amplitude = getDouble(input_db, "heave_amplitude")
               /\ obj[o].m.d_pitch_amplitude =
                      InRadians(getDouble(input_db, "pitch_amplitude"))

\* an object built from a database whose only optional key is
\* initial_offset_y: that offset is the database's, the rest are defaults
C19_Witness ==
    /\ obj["a"].status = "ready"
    /\ DOMAIN input_db = RequiredKeys \cup {"initial_offset_y"}
    /\ obj["a"].m.d_initial_offset_y = -100
    /\ obj["a"].m.d_initial_offset_x = 0
    /\ obj["a"].m.d_pivot_point_x = 250
    /\ obj["a"].m.d_pivot_point_y = 0
    /\ obj["a"].m.d_phase_offset = 1571

C21_SuccessOnlyIfFinite ==
    (driver = "smoke" /\ pc = "done") =>
        ((out.success \/ out.exit_status = "0") => ~out.ever_nan)

\* C23: advanceHierarchy is called only from the loop body, once, while
\* stepsRemaining() holds and loop_time differs from the end time, with
\* loop_time and iteration_num re-read from the integrator and with the dt
\* obtained in this iteration; after the step loop_time is the pre-step
\* time plus dt and iteration_num the pre-step step count plus 1.
C23_OneAdvancePerIteration ==
    /\ [][ pc' = "advance" =>
             /\ pc = "loop_head"
             /\ stepsRemaining(integ)
             /\ ~equalEps(loc.loop_time, loc.loop_time_end)
             /\ loc'.loop_time = integ.time
             /\ loc'.iteration_num = integ.step
             /\ loc'.dt \in DtValues ]_vars
    /\ [][ out'.advance_calls # out.advance_calls =>
             /\ pc = "advance" /\ pc' # "advance"
             /\ out'.advance_calls = out.advance_calls + 1
             /\ stepsRemaining(integ)
             /\ ~equalEps(integ.time, integ.end_time)
             /\ pc' = "loop_test" =>
                  /\ integ'.time = integ.time + loc.dt
                  /\ integ'.step = integ.step + 1
                  /\ loc'.loop_time = integ.time + loc.dt
                  /\ loc'.iteration_num = integ.step + 1 ]_vars

\* three iterations, the last one with dt = 0.002 from time 0.002
C23_Witness ==
    /\ pc = "loop_test"
    /\ out.advance_calls = 3
    /\ loc.iteration_num = 3 /\ integ.step = 3
    /\ loc.dt = 2
    /\ loc.loop_time = integ.time
    /\ ~out.failed

\* C24: when every advanceHierarchy call returns, the driver eventually
\* leaves the loop, deletes its boundary-condition objects and returns 0.
C24_LoopTerminates ==
    <>( /\ pc = "done"
        /\ out.exit_status = "0"
        /\ loc.u_bc_coefs = 0
        /\ ~loc.C_bc_coef )

\* a run on a non-periodic domain that returned 0 after using up its step
\* budget before the end time
C24_Witness ==
    /\ pc = "done"
    /\ out.exit_status = "0"
    /\ ~loc.in.periodic
    /\ integ.u_bc = NDIM /\ loc.u_bc_coefs = 0
    /\ integ.step = integ.max_steps
    /\ integ.time < integ.end_time

\* C22: a Test04/Test05 driver returns 0 and logs a passed result exactly
\* when the test's pass criterion holds, and the logged verdict, the footer
\* verdict and the exit status agree.
C22_VerdictFollowsCriterion ==
    td.pc = "returned" =>
        /\ td.exit_status = 0 <=> td.criterion
        /\ td.logged = Verdict(td.exit_status = 0)
        /\ td.footer = Verdict(td.exit_status = 0)

\* the tests of a sequence of <<test, status>> pairs whose status is (not) 0
RECURSIVE TestsWithStatus(_, _)
TestsWithStatus(ran, zero) ==
    IF ran = <<>> THEN <<>>
    ELSE LET rest == TestsWithStatus(Tail(ran), zero)
         IN IF (Head(ran)[2] = 0) = zero THEN <<Head(ran)[1]>> \o rest ELSE rest

Range(seq) == { seq[i] : i \in DOMAIN seq }
Increasing(seq) == \A i, j \in DOMAIN seq : i < j => seq[i] < seq[j]

\* C25: run_all_tests.sh goes through Test 1 .. Test 14 in order whatever
\* the earlier results; every executed test is in exactly one of the two
\* tallies and a test without directory or run_test.sh in neither; the
\* script exits only after the 14th test, with status 1 and the list of
\* failed tests iff some executed run_test.sh returned non-zero, otherwise
\* with 'ALL TESTS PASSED' and status 0.
C25_SuiteVerdict ==
    suite.pc # "idle" =>
        LET attempted == 1..(suite.next - 1)
            executed == { r[1] : r \in Range(suite.ran) }
        IN /\ executed = attempted \cap suite.present
           /\ Range(suite.not_implemented) = attempted \ suite.present
           /\ Increasing([i \in DOMAIN suite.ran |-> suite.ran[i][1]])
           /\ Increasing(suite.not_implemented)
           /\ suite.PASSED_TESTS = TestsWithStatus(suite.ran, TRUE)
           /\ suite.FAILED_TESTS = TestsWithStatus(suite.ran, FALSE)
           /\ Range(suite.PASSED_TESTS) \cap Range(suite.FAILED_TESTS) = {}
           /\ Range(suite.PASSED_TESTS) \cup Range(suite.FAILED_TESTS) = executed
           /\ suite.pc = "exited" =>
                /\ suite.next = NumTests + 1
                /\ IF \E r \in Range(suite.ran) : r[2] # 0
                   THEN /\ suite.exit_status = 1
                        /\ suite.listed = suite.FAILED_TESTS
                        /\ ~suite.all_passed
                   ELSE /\ suite.exit_status = 0
                        /\ suite.all_passed
                        /\ suite.listed = <<>>

\* all 14 tests exist; Test 2 failed, the 12 tests after it were still
\* run, Test 14 failed too, and the script exited with 1 listing both
C25_Witness ==
    /\ suite.pc = "exited"
    /\ suite.present = TestNumbers
    /\ suite.FAILED_TESTS = <<2, 14>>
    /\ Len(suite.PASSED_TESTS) = 12
    /\ suite.listed = <<2, 14>>
    /\ suite.exit_status = 1

\* C26: in Test 1's run_test.sh a simulation that ran and returned non-zero
\* ends the script with that status, without analysis and without 'TEST 1
\* PASSED'; otherwise analyze.py is run and decides: 'TEST 1 PASSED' and
\* status 0 iff it returned 0, else 'TEST 1 FAILED' and status 1.
C26_Test1Verdict ==
    t1.pc = "exited" =>
        IF t1.simulation_ran /\ t1.EXIT_CODE # 0
        THEN /\ t1.exit_status = t1.EXIT_CODE
             /\ ~t1.analysis_ran
             /\ "TEST 1 PASSED" \notin t1.printed
        ELSE /\ t1.analysis_ran
             /\ IF t1.ANALYSIS_EXIT = 0
                THEN /\ t1.exit_status = 0
                     /\ "TEST 1 PASSED" \in t1.printed
                     /\ "TEST 1 FAILED" \notin t1.printed
                ELSE /\ t1.exit_status = 1
                     /\ "TEST 1 FAILED" \in t1.printed
                     /\ "TEST 1 PASSED" \notin t1.printed

\* the simulation crashed with status 139 and the script exited with 139
C26_Witness ==
    /\ t1.pc = "exited"
    /\ t1.simulation_ran
    /\ t1.EXIT_CODE = 139
    /\ t1.exit_status = 139
    /\ ~t1.analysis_ran

\* C29: when run_all_tests.sh prints 'ALL TESTS PASSED' and exits 0, all 14
\* tests were executed and passed and none was skipped.
C29_AllPassedMeansAllRan ==
    (suite.pc = "exited" /\ suite.all_passed /\ suite.exit_status = 0) =>
        /\ Len(suite.PASSED_TESTS) = NumTests
        /\ suite.not_implemented = <<>>

\* C30: 'TEST 1 PASSED' is printed only when the simulation binary was run
\* after the cleaning of the previous results and returned 0.
C30_PassedOnlyAfterSimulation ==
    "TEST 1 PASSED" \in t1.printed =>
        /\ t1.cleaned
        /\ t1.simulation_ran
        /\ t1.EXIT_CODE = 0

\* C27: setKinematicsVelocity and setShape write d_kinematics_vel and
\* d_shape only at indices below the size the vectors have.
C27_WritesWithinBounds ==
    \A o \in Objects :
        /\ ~obj[o].heap_corrupt
        /\ obj[o].status # "crashed"
        /\ (last_op[1] \in {"setKinematicsVelocity", "setShape"} /\ last_op[2] = o) =>
             /\ finest_ln + 1 <= Len(obj[o].d_kinematics_vel)
             /\ finest_ln + 1 <= Len(obj[o].d_shape)

\* C28: two runs that differ only in pivot point, initial offset and
\* center of mass, and whose last velocity call was at the same time on
\* the present hierarchy, hold the same velocity at every level
\* 0..finest level.
C28_PlacementIndependent ==
    ( /\ obj["a"].status = "ready" /\ obj["b"].status = "ready"
      /\ obj["a"].called_ln = finest_ln /\ obj["b"].called_ln = finest_ln
      /\ obj["a"].m.d_current_time = obj["b"].m.d_current_time ) =>
        /\ obj["a"].d_new_kinematics_vel = obj["b"].d_new_kinematics_vel
        /\ \A ln \in 0..finest_ln :
             /\ LevelHolds("a", ln, obj["a"].d_new_kinematics_vel)
             /\ LevelHolds("b", ln, obj["a"].d_new_kinematics_vel)

====
